---- MODULE Spec2Model ----
(***************************************************************************)
(* A model of gwcfd (src/gwcfd.c): the main thread (argument parsing,      *)
(* set-up, thread creation, the inline worker, the checkpoint save and the *)
(* clean-up), the worker threads sharing the atomic cursor tid_pos, and    *)
(* the signal handler that sets g_stop.                                    *)
(*                                                                         *)
(* uint64_t values are kept modulo 2^TidBits: the arithmetic of the cursor *)
(* is the code's (fetch-and-add modulo the width), the width is scaled.    *)
(***************************************************************************)
EXTENDS Integers, Sequences, FiniteSets, TLC

\* ------------------------------------------------------------------ bounds
\* Width, in bits, of the model's uint64_t.
TidBits == 3
\* Largest thread count the model runs (the code allows 1..1024).
MaxThreads == 3
\* Cap on the number of calls to comifuro_get_tid in one run.
MaxDispense == 4

\* ------------------------------------------------- constants of the program
TidMod == 2 ^ TidBits
\* -1ull
UINT64_MAX == TidMod - 1
\* g_start_tid, the compiled-in first ticket id (scaled to the model's width).
g_start_tid == 1
\* The largest thread count parse_argv accepts.
NR_THREADS_LIMIT == 1024

Tids == 0 .. UINT64_MAX
Slots == 0 .. (MaxThreads - 1)

\* ------------------------------------------------------------------- inputs
\* Values of -t: rejected ones (0, 1025) and the ones the model runs.
ThreadArgs == {0, NR_THREADS_LIMIT + 1} \cup (1 .. MaxThreads)
\* Value of -s when it is given.
StartArgs == {0}
\* Values of -e when it is given.
EndArgs == {1}
\* The command lines: help, version, an unknown option, or a run.
ArgKinds == {"run", "help", "version", "unknown"}

\* ------------------------------------------------------------ text helpers
Digits == <<"0", "1", "2", "3", "4", "5", "6", "7", "8", "9">>
IsDigit(c) == \E d \in 1 .. 10 : Digits[d] = c
DigitVal(c) == (CHOOSE d \in 1 .. 10 : Digits[d] = c) - 1
IsSpace(c) == c \in {" ", "\n", "\t"}

RECURSIVE DecStr(_)
\* printf("%llu", n): the decimal digits of n, most significant first.
DecStr(n) ==
  IF n < 10 THEN <<Digits[n + 1]>>
  ELSE Append(DecStr(n \div 10), Digits[(n % 10) + 1])

RECURSIVE SkipSpace(_)
SkipSpace(s) ==
  IF s # <<>> /\ IsSpace(Head(s)) THEN SkipSpace(Tail(s)) ELSE s

RECURSIVE ScanDigits(_, _, _)
\* The value of the leading run of digits of s after the digits already read
\* (acc), saturating at the largest value max as strtoull does on overflow.
ScanDigits(s, acc, max) ==
  IF s = <<>> \/ ~IsDigit(Head(s)) THEN acc
  ELSE LET v == acc * 10 + DigitVal(Head(s))
       IN ScanDigits(Tail(s), IF v > max THEN max ELSE v, max)

\* fscanf(fp, "%lld", &tid): the value is read as a signed number, which
\* saturates at the largest signed value.
ScanULL_signed(s, mod) ==
  LET t == SkipSpace(s)
      neg == t # <<>> /\ Head(t) = "-"
      u == IF t # <<>> /\ Head(t) \in {"-", "+"} THEN Tail(t) ELSE t
      ok == u # <<>> /\ IsDigit(Head(u))
      v == ScanDigits(u, 0, (mod \div 2) - 1)
  IN [ok |-> ok,
      val |-> IF ~ok THEN 0
              ELSE IF neg THEN (mod - v) % mod ELSE v]

\* fscanf(fp, "%llu", &tid) for an unsigned long long of mod values: skip white
\* space, an optional sign, then at least one digit. ok is "fscanf returned 1".
ScanULL(s, mod) ==
  LET t == SkipSpace(s)
      neg == t # <<>> /\ Head(t) = "-"
      u == IF t # <<>> /\ Head(t) \in {"-", "+"} THEN Tail(t) ELSE t
      ok == u # <<>> /\ IsDigit(Head(u))
      v == ScanDigits(u, 0, mod - 1)
  IN [ok |-> ok,
      val |-> IF ~ok THEN 0
              ELSE IF neg THEN (mod - v) % mod ELSE v]

\* The file as the C string functions see it: the bytes before the first NUL.
RECURSIVE CStr(_)
CStr(s) ==
  IF s = <<>> \/ Head(s) = "NUL" THEN <<>> ELSE <<Head(s)>> \o CStr(Tail(s))

\* strstr(hay, needle) != NULL
StrStr(hay, needle) ==
  \E k \in 0 .. (Len(hay) - Len(needle)) :
    SubSeq(hay, k + 1, k + Len(needle)) = needle

Day1Marker == <<"D", "a", "y", " ", "1">>
Day2Marker == <<"D", "a", "y", " ", "2">>

\* The markers tested in the other order: "Day 1" first.
comifuro_detect_day_day1_first(data) ==
  IF StrStr(data, Day1Marker) THEN 1
  ELSE IF StrStr(data, Day2Marker) THEN 2
  ELSE 0

\* comifuro_detect_day: 2, 1, or 0 for an unknown format.
comifuro_detect_day(data) ==
  IF StrStr(data, Day2Marker) THEN 2
  ELSE IF StrStr(data, Day1Marker) THEN 1
  ELSE 0

\* A file that does not exist.
NoFile == <<"ENOENT">>

\* fprintf(fp, "%llu\n", tid_pos): what save_last_tid writes for the cursor pos.
LastTidText(pos) == DecStr(pos) \o <<"\n">>

\* What can be in <out>/misc/last_tid when the program starts: no file, a file
\* that does not start with a number, a saved cursor.
LastTidFiles == { NoFile, <<"x">>, LastTidText(2) }

\* The server's answer to GET /e/<tid>: a ticket of day 1, no such ticket, a
\* 200 with no body byte, a server error.
ServerAnswer(tid) ==
  CASE tid % 4 = 1 -> [status |-> "200", body |-> Day1Marker]
    [] tid % 4 = 2 -> [status |-> "404", body |-> <<>>]
    [] tid % 4 = 3 -> [status |-> "200", body |-> <<>>]
    [] OTHER       -> [status |-> "other", body |-> <<>>]

\* exit status of the process for main's return value
ExitStatus(r) == r % 256

\* -------------------------------------------------------------------- state
VARIABLES
  mpc,            \* where the main thread is in main()
  ret,            \* main's local ret
  exited,         \* main has returned
  exit_code,      \* the exit status, once exited
  crashed,        \* the process was killed by the outcome of undefined behaviour
  handlers,       \* the signal handlers are installed
  g_stop,         \* the stop flag
  has_start_tid,  \* ctx.has_start_tid
  start_tid,      \* ctx.start_tid
  end_tid,        \* ctx.end_tid
  nr_thread,      \* ctx.nr_thread
  tid_pos,        \* ctx.tid_pos, the cursor
  threads,        \* ctx.threads is not NULL
  curl,           \* the slots i with ctx.threads[i].curl not NULL
  created,        \* the slots whose pthread_create succeeded
  joined,         \* the slots pthread_join was called on
  dirs,           \* day1_dir, day2_dir, misc_dir: "null", "alloc" or "freed"
  mi,             \* the loop index i of the main thread
  last_tid,       \* the content of <out>/misc/last_tid
  files,          \* the ticket files: <<day, tid>> -> content
  wpc,            \* where each worker is in comifuro_var_thread_worker
  wtid,           \* each worker's local tid
  \* history of the run, read by the properties only
  cmd,            \* the kind of command line parse_argv saw
  failure,        \* the set-up step that failed, or "none"
  tid0,           \* the cursor when the workers were started
  dispensed,      \* the values comifuro_get_tid returned, in the order of the calls
  nfetch,         \* tid -> number of fetches issued for it
  fres,           \* tid -> its last fetch: "none", "inflight", "http", "transport"
  why,            \* worker -> what made it leave its loop
  poststop,       \* worker -> ids it acquired after g_stop was set
  saved,          \* the values save_last_tid wrote, with the calls made so far
  reply,          \* worker -> the HTTP reply its last fetch ended with
  \* one fetch seen from inside curl_easy_perform
  cdata,          \* thread->cdata: buf is not NULL, len, allocated
  cb_calls,       \* the number of times comifuro_write_cb was called
  cb_ret          \* what the last call of comifuro_write_cb returned

vars ==
  << mpc, ret, exited, exit_code, crashed, handlers, g_stop, has_start_tid,
     start_tid, end_tid, nr_thread, tid_pos, threads, curl, created, joined,
     dirs, mi, last_tid, files, wpc, wtid, cmd, failure, tid0, dispensed,
     nfetch, fres, why, poststop, saved, reply, cdata, cb_calls, cb_ret >>

ctxvars == << has_start_tid, start_tid, end_tid, nr_thread >>
workervars ==
  << wpc, wtid, dispensed, nfetch, fres, why, poststop, files, reply >>
thrvars == << threads, curl, created, joined >>
histvars == << cmd, failure, tid0, saved >>
cbvars == << cdata, cb_calls, cb_ret >>

Days == {0, 1, 2}

\* No HTTP reply: the fetch is in flight or ended with a transport error.
NoReply == [status |-> "none", body |-> <<>>, save |-> "none"]

\* memset(&thread->cdata, 0, sizeof(thread->cdata))
ZeroCdata == [buf |-> FALSE, len |-> 0, allocated |-> 0]

\* The process is running: neither returned from main nor killed.
Alive == ~exited /\ ~crashed

\* The state when main starts, with the checkpoint file one of lastfiles.
InitFiles(lastfiles) ==
  /\ mpc = "install_signal_handlers"
  /\ ret = 0
  /\ exited = FALSE
  /\ exit_code = 0
  /\ crashed = FALSE
  /\ handlers = FALSE
  /\ g_stop = FALSE
  /\ has_start_tid = FALSE
  /\ start_tid = 0
  /\ end_tid = 0
  /\ nr_thread = 0
  /\ tid_pos = 0
  /\ threads = FALSE
  /\ curl = {}
  /\ created = {}
  /\ joined = {}
  /\ dirs = "null"
  /\ mi = 0
  /\ last_tid \in lastfiles
  /\ files = [f \in Days \X Tids |-> NoFile]
  /\ wpc = [i \in Slots |-> "idle"]
  /\ wtid = [i \in Slots |-> 0]
  /\ cmd = "none"
  /\ failure = "none"
  /\ tid0 = 0
  /\ dispensed = <<>>
  /\ nfetch = [t \in Tids |-> 0]
  /\ fres = [t \in Tids |-> "none"]
  /\ why = [i \in Slots |-> "none"]
  /\ poststop = [i \in Slots |-> 0]
  /\ saved = <<>>
  /\ reply = [i \in Slots |-> NoReply]
  /\ cdata = ZeroCdata
  /\ cb_calls = 0
  /\ cb_ret = 0

Init == InitFiles(LastTidFiles)

\* main returns r.
Return(r) ==
  /\ mpc' = "exited"
  /\ exited' = TRUE
  /\ exit_code' = ExitStatus(r)

\* ------------------------------------------------------------ the main thread
\* main: ret = install_signal_handlers(); if (ret) return ret;
install_signal_handlers ==
  /\ Alive /\ mpc = "install_signal_handlers"
  /\ \/ /\ handlers' = TRUE
        /\ mpc' = "parse_argv"
        /\ UNCHANGED << ret, exited, exit_code, failure >>
     \/ /\ ret' = -1
        /\ failure' = "install_signal_handlers"
        /\ Return(-1)
        /\ UNCHANGED handlers
  /\ UNCHANGED << crashed, g_stop, ctxvars, tid_pos, thrvars, dirs, mi,
                  last_tid, workervars, cmd, tid0, saved, cbvars >>

\* The value parse_argv returns for a command line of kind k with -t t.
ParseResult(k, t) ==
  IF k \in {"help", "version"} THEN 1
  ELSE IF k = "unknown" THEN -1
  ELSE IF t < 1 THEN -1
  ELSE IF t > NR_THREADS_LIMIT THEN -1
  ELSE 0

\* main: memset(&ctx, 0, sizeof(ctx)); ret = parse_argv(...); if (ret) return ret;
\* The command line is of kind k, with -t t, with -s s when hs, -e e when he.
parse_argv(k, t, hs, s, he, e) ==
  /\ Alive /\ mpc = "parse_argv"
  /\ cmd' = k
  /\ ret' = ParseResult(k, t)
  /\ IF k = "run"
       THEN /\ has_start_tid' = hs
            /\ start_tid' = IF hs THEN s ELSE 0
            /\ end_tid' = IF he THEN e ELSE UINT64_MAX
            /\ nr_thread' = IF ParseResult(k, t) = 0 THEN t ELSE 0
       ELSE /\ end_tid' = UINT64_MAX
            /\ UNCHANGED << has_start_tid, start_tid, nr_thread >>
  /\ IF ParseResult(k, t) # 0
       THEN /\ Return(ParseResult(k, t))
            /\ failure' = IF ParseResult(k, t) < 0 THEN "parse_argv" ELSE "none"
       ELSE /\ mpc' = "curl_global_init"
            /\ UNCHANGED << exited, exit_code, failure >>
  /\ UNCHANGED << crashed, handlers, g_stop, tid_pos, thrvars, dirs, mi,
                  last_tid, workervars, tid0, saved, cbvars >>

\* main: ret = curl_global_init(CURL_GLOBAL_ALL); if (ret != CURLE_OK) return -1;
curl_global_init ==
  /\ Alive /\ mpc = "curl_global_init"
  /\ \/ /\ mpc' = "init_thread_array"
        /\ UNCHANGED << ret, exited, exit_code, failure >>
     \/ /\ \E code \in {2} : ret' = code
        /\ failure' = "curl_global_init"
        /\ Return(-1)
  /\ UNCHANGED << crashed, handlers, g_stop, ctxvars, tid_pos, thrvars, dirs,
                  mi, last_tid, workervars, cmd, tid0, saved, cbvars >>

\* init_thread_array: calloc fails, or curl_easy_init fails for slot k, or all
\* nr_thread slots get a curl handle. main: if (ret) goto out;
init_thread_array ==
  /\ Alive /\ mpc = "init_thread_array"
  /\ \/ /\ threads' = FALSE
        /\ curl' = {}
        /\ ret' = -1
        /\ failure' = "init_thread_array"
        /\ mpc' = "gwcfd_ctx_destroy"
     \/ \E k \in 0 .. (nr_thread - 1) :
          /\ threads' = TRUE
          /\ curl' = 0 .. (k - 1)
          /\ ret' = -1
          /\ failure' = "init_thread_array"
          /\ mpc' = "gwcfd_ctx_destroy"
     \/ /\ threads' = TRUE
        /\ curl' = 0 .. (nr_thread - 1)
        /\ ret' = 0
        /\ mpc' = "init_output_storage"
        /\ UNCHANGED failure
  /\ UNCHANGED << exited, exit_code, crashed, handlers, g_stop, ctxvars,
                  tid_pos, created, joined, dirs, mi, last_tid, workervars,
                  cmd, tid0, saved, cbvars >>

\* init_output_storage: the three mallocs and the three mkdirs. On failure the
\* function frees the three names and leaves the freed pointers in ctx.
init_output_storage ==
  /\ Alive /\ mpc = "init_output_storage"
  /\ \/ /\ dirs' = "alloc"
        /\ ret' = 0
        /\ mpc' = "start"
        /\ UNCHANGED failure
     \/ /\ dirs' \in {"null", "freed"}
        /\ ret' = -1
        /\ failure' = "init_output_storage"
        /\ mpc' = "gwcfd_ctx_destroy"
  /\ UNCHANGED << exited, exit_code, crashed, handlers, g_stop, ctxvars,
                  tid_pos, thrvars, mi, last_tid, workervars, cmd, tid0,
                  saved, cbvars >>

\* try_load_last_tid: the cursor (of mod values) after the load, from the cursor
\* before it, the file (NoFile when absent) and whether fopen succeeds.
try_load_last_tid(pos, file, openok, mod) ==
  IF file = NoFile \/ ~openok THEN pos
  ELSE IF ~ScanULL(file, mod).ok THEN pos
  ELSE ScanULL(file, mod).val

\* start_comifuro_ticket_var_dumper, up to the loop: the cursor it starts the
\* workers with.
InitialCursor(hs, s, file, openok) ==
  IF ~hs THEN try_load_last_tid(g_start_tid, file, openok, TidMod)
  ELSE g_start_tid

start_comifuro_ticket_var_dumper ==
  /\ Alive /\ mpc = "start"
  /\ \E openok \in BOOLEAN :
       /\ tid_pos' = InitialCursor(has_start_tid, start_tid, last_tid, openok)
       /\ tid0' = tid_pos'
  /\ mi' = 1
  /\ mpc' = "pthread_create"
  /\ UNCHANGED << ret, exited, exit_code, crashed, handlers, g_stop, ctxvars,
                  thrvars, dirs, last_tid, workervars, cmd, failure, saved,
                  cbvars >>

\* One turn of the loop for (i = 1; i < ctx->nr_thread; i++): pthread_create
\* starts slot i's worker, or fails and the function returns -1.
pthread_create ==
  /\ Alive /\ mpc = "pthread_create" /\ mi < nr_thread
  /\ \/ /\ created' = created \cup {mi}
        /\ wpc' = [wpc EXCEPT ![mi] = "top"]
        /\ mi' = mi + 1
        /\ UNCHANGED << mpc, ret, failure >>
     \/ /\ ret' = -1
        /\ failure' = "pthread_create"
        /\ mpc' = "gwcfd_ctx_destroy"
        /\ UNCHANGED << created, wpc, mi >>
  /\ UNCHANGED << exited, exit_code, crashed, handlers, g_stop, ctxvars,
                  tid_pos, threads, curl, joined, dirs, last_tid, wtid,
                  dispensed, nfetch, fres, why, poststop, files, cmd, tid0,
                  saved, reply, cbvars >>

\* comifuro_var_thread_worker(&ctx->threads[0]): the main thread becomes worker 0.
run_inline_worker ==
  /\ Alive /\ mpc = "pthread_create" /\ mi >= nr_thread
  /\ wpc' = [wpc EXCEPT ![0] = "top"]
  /\ mpc' = "worker0"
  /\ UNCHANGED << ret, exited, exit_code, crashed, handlers, g_stop, ctxvars,
                  tid_pos, thrvars, dirs, mi, last_tid, wtid, dispensed,
                  nfetch, fres, why, poststop, files, histvars, reply,
                  cbvars >>

\* save_last_tid writing the last id the inline worker took instead of the
\* cursor.
save_last_tid_own_tid ==
  /\ Alive /\ mpc = "worker0" /\ wpc[0] = "stopped"
  /\ \E openok \in BOOLEAN :
       /\ last_tid' = IF openok THEN LastTidText(wtid[0]) ELSE last_tid
       /\ saved' = Append(saved, [val |-> wtid[0], ok |-> openok,
                                  calls |-> Len(dispensed)])
  /\ ret' = 0
  /\ mpc' = "gwcfd_ctx_destroy"
  /\ UNCHANGED << exited, exit_code, crashed, handlers, g_stop, ctxvars,
                  tid_pos, thrvars, dirs, mi, workervars, cmd, failure, tid0,
                  cbvars >>

\* save_last_tid, called when the inline worker has returned; then the function
\* returns 0 to main. The file is written when fopen succeeds.
save_last_tid ==
  /\ Alive /\ mpc = "worker0" /\ wpc[0] = "stopped"
  /\ \E openok \in BOOLEAN :
       /\ last_tid' = IF openok THEN LastTidText(tid_pos) ELSE last_tid
       /\ saved' = Append(saved, [val |-> tid_pos, ok |-> openok,
                                  calls |-> Len(dispensed)])
  /\ ret' = 0
  /\ mpc' = "gwcfd_ctx_destroy"
  /\ UNCHANGED << exited, exit_code, crashed, handlers, g_stop, ctxvars,
                  tid_pos, thrvars, dirs, mi, workervars, cmd, failure, tid0,
                  cbvars >>

\* gwcfd_ctx_destroy, up to its loop: the three free()s, then the test of
\* ctx->threads. Freeing the names init_output_storage already freed is
\* undefined: the process is killed, or it goes on.
gwcfd_ctx_destroy ==
  /\ Alive /\ mpc = "gwcfd_ctx_destroy"
  /\ dirs' = IF dirs = "alloc" THEN "freed" ELSE dirs
  /\ \/ /\ dirs = "freed"
        /\ crashed' = TRUE
        /\ UNCHANGED << mpc, mi >>
     \/ /\ UNCHANGED crashed
        /\ IF threads
             THEN mpc' = "pthread_join" /\ mi' = 0
             ELSE mpc' = "curl_global_cleanup" /\ UNCHANGED mi
  /\ UNCHANGED << ret, exited, exit_code, handlers, g_stop, ctxvars, tid_pos,
                  thrvars, last_tid, workervars, histvars, cbvars >>

\* A join that returns at once, whether the thread has ended or not.
pthread_join_no_wait ==
  /\ Alive /\ mpc = "pthread_join" /\ mi < nr_thread
  /\ \/ /\ mi \notin curl \/ mi = 0
        /\ mi' = mi + 1
        /\ UNCHANGED << joined, crashed >>
     \/ /\ mi \in curl /\ mi > 0 /\ mi \in created
        /\ joined' = joined \cup {mi}
        /\ mi' = mi + 1
        /\ UNCHANGED crashed
     \/ /\ mi \in curl /\ mi > 0 /\ mi \notin created
        /\ joined' = joined \cup {mi}
        /\ \/ crashed' = TRUE /\ UNCHANGED mi
           \/ mi' = mi + 1 /\ UNCHANGED crashed
  /\ UNCHANGED << mpc, ret, exited, exit_code, handlers, g_stop, ctxvars,
                  tid_pos, threads, curl, created, dirs, last_tid,
                  workervars, histvars, cbvars >>

\* One turn of the loop of gwcfd_ctx_destroy for slot i = mi. A slot with a
\* curl handle and i > 0 is joined: the call returns when the thread has
\* ended. Joining a slot no thread was created for is undefined (its pthread_t
\* is the calloc'ed zero): the process is killed, or the call returns.
pthread_join ==
  /\ Alive /\ mpc = "pthread_join" /\ mi < nr_thread
  /\ \/ /\ mi \notin curl \/ mi = 0
        /\ mi' = mi + 1
        /\ UNCHANGED << joined, crashed >>
     \/ /\ mi \in curl /\ mi > 0 /\ mi \in created
        /\ wpc[mi] = "stopped"
        /\ joined' = joined \cup {mi}
        /\ mi' = mi + 1
        /\ UNCHANGED crashed
     \/ /\ mi \in curl /\ mi > 0 /\ mi \notin created
        /\ joined' = joined \cup {mi}
        /\ \/ crashed' = TRUE /\ UNCHANGED mi
           \/ mi' = mi + 1 /\ UNCHANGED crashed
  /\ UNCHANGED << mpc, ret, exited, exit_code, handlers, g_stop, ctxvars,
                  tid_pos, threads, curl, created, dirs, last_tid,
                  workervars, histvars, cbvars >>

\* The end of gwcfd_ctx_destroy's loop: free(ctx->threads).
destroy_done ==
  /\ Alive /\ mpc = "pthread_join" /\ mi >= nr_thread
  /\ mpc' = "curl_global_cleanup"
  /\ UNCHANGED << ret, exited, exit_code, crashed, handlers, g_stop, ctxvars,
                  tid_pos, thrvars, dirs, mi, last_tid, workervars, histvars,
                  cbvars >>

\* main: curl_global_cleanup(); return 0;
curl_global_cleanup ==
  /\ Alive /\ mpc = "curl_global_cleanup"
  /\ Return(0)
  /\ UNCHANGED << ret, crashed, handlers, g_stop, ctxvars, tid_pos, thrvars,
                  dirs, mi, last_tid, workervars, histvars, cbvars >>

\* ------------------------------------------------------------------ signals
\* SIGINT, SIGTERM or SIGHUP arrives once the handlers are installed.
interrupt_handler ==
  /\ Alive /\ handlers /\ ~g_stop
  /\ g_stop' = TRUE
  /\ UNCHANGED << mpc, ret, exited, exit_code, crashed, handlers, ctxvars,
                  tid_pos, thrvars, dirs, mi, last_tid, workervars, histvars,
                  cbvars >>

\* ------------------------------------------------------------------ workers
\* A worker's loop is RUNNING at "top", "get" and "fetch", STOPPED at "stopped".
Running == {"top", "get", "fetch"}

\* A loop that never reads the flag: while (1).
worker_test_stop_ignoring_flag(i) ==
  /\ Alive /\ wpc[i] = "top"
  /\ wpc' = [wpc EXCEPT ![i] = "get"]
  /\ UNCHANGED << mpc, ret, exited, exit_code, crashed, handlers, g_stop,
                  ctxvars, tid_pos, thrvars, dirs, mi, last_tid, wtid,
                  dispensed, nfetch, fres, why, poststop, files, histvars,
                  reply, cbvars >>

\* while (!g_stop): the worker reads the flag.
worker_test_stop(i) ==
  /\ Alive /\ wpc[i] = "top"
  /\ IF g_stop
       THEN /\ wpc' = [wpc EXCEPT ![i] = "stopped"]
            /\ why' = [why EXCEPT ![i] = "g_stop"]
       ELSE /\ wpc' = [wpc EXCEPT ![i] = "get"]
            /\ UNCHANGED why
  /\ UNCHANGED << mpc, ret, exited, exit_code, crashed, handlers, g_stop,
                  ctxvars, tid_pos, thrvars, dirs, mi, last_tid, wtid,
                  dispensed, nfetch, fres, poststop, files, histvars, reply,
                  cbvars >>

\* A load and a store in place of the atomic fetch-and-add, the store lost.
comifuro_get_tid_lost_update(pos) ==
  [old |-> pos, new |-> pos]

\* comifuro_get_tid: atomic_fetch_add(&ctx->tid_pos, 1): the value returned
\* (old) and the cursor afterwards (new).
comifuro_get_tid(pos) ==
  [old |-> pos, new |-> (pos + 1) % TidMod]

\* if (tid >= ctx->end_tid) break;
BeyondEnd_at_end(tid, end) == tid >= end

\* if (tid > ctx->end_tid) break;
BeyondEnd(tid, end) == tid > end

\* The worker reading the flag again once it has its id:
\* tid = comifuro_get_tid(ctx); if (g_stop || tid > ctx->end_tid) break;
worker_get_tid_then_test_stop(i) ==
  /\ Alive /\ wpc[i] = "get"
  /\ Len(dispensed) < MaxDispense
  /\ LET r == comifuro_get_tid(tid_pos) IN
       /\ tid_pos' = r.new
       /\ wtid' = [wtid EXCEPT ![i] = r.old]
       /\ dispensed' = Append(dispensed, r.old)
       /\ poststop' = [poststop EXCEPT ![i] = @ + (IF g_stop THEN 1 ELSE 0)]
       /\ reply' = [reply EXCEPT ![i] = NoReply]
       /\ IF g_stop \/ BeyondEnd(r.old, end_tid)
            THEN /\ wpc' = [wpc EXCEPT ![i] = "stopped"]
                 /\ why' = [why EXCEPT ![i] =
                              IF g_stop THEN "g_stop" ELSE "end_tid"]
                 /\ UNCHANGED << nfetch, fres >>
            ELSE /\ wpc' = [wpc EXCEPT ![i] = "fetch"]
                 /\ nfetch' = [nfetch EXCEPT ![r.old] = @ + 1]
                 /\ fres' = [fres EXCEPT ![r.old] = "inflight"]
                 /\ UNCHANGED why
  /\ UNCHANGED << mpc, ret, exited, exit_code, crashed, handlers, g_stop,
                  ctxvars, thrvars, dirs, mi, last_tid, files, histvars,
                  cbvars >>

\* tid = comifuro_get_tid(ctx); if (tid > ctx->end_tid) break; otherwise the
\* fetch of tid is issued.
worker_get_tid(i) ==
  /\ Alive /\ wpc[i] = "get"
  /\ Len(dispensed) < MaxDispense
  /\ LET r == comifuro_get_tid(tid_pos) IN
       /\ tid_pos' = r.new
       /\ wtid' = [wtid EXCEPT ![i] = r.old]
       /\ dispensed' = Append(dispensed, r.old)
       /\ poststop' = [poststop EXCEPT ![i] = @ + (IF g_stop THEN 1 ELSE 0)]
       /\ reply' = [reply EXCEPT ![i] = NoReply]
       /\ IF BeyondEnd(r.old, end_tid)
            THEN /\ wpc' = [wpc EXCEPT ![i] = "stopped"]
                 /\ why' = [why EXCEPT ![i] = "end_tid"]
                 /\ UNCHANGED << nfetch, fres >>
            ELSE /\ wpc' = [wpc EXCEPT ![i] = "fetch"]
                 /\ nfetch' = [nfetch EXCEPT ![r.old] = @ + 1]
                 /\ fres' = [fres EXCEPT ![r.old] = "inflight"]
                 /\ UNCHANGED why
  /\ UNCHANGED << mpc, ret, exited, exit_code, crashed, handlers, g_stop,
                  ctxvars, thrvars, dirs, mi, last_tid, files, histvars,
                  cbvars >>

\* comifuro_ticket_save: the files after saving data for tid; the file is
\* written when fopen succeeds.
comifuro_ticket_save(fs, tid, data, openok) ==
  IF openok
    THEN [fs EXCEPT ![<<comifuro_detect_day(data), tid>>] = data]
    ELSE fs

\* What a fetch can come to: curl_easy_perform fails, curl_easy_getinfo fails,
\* or there is an HTTP status.
FetchResults == {"perform_error", "getinfo_error", "200", "404", "other"}

\* The value comifuro_fetch_ticket returns.
FetchReturn(res) == IF res \in {"perform_error", "getinfo_error"} THEN -1 ELSE 0

\* comifuro_fetch_ticket with a transport error that also sets g_stop.
comifuro_fetch_ticket_stop_all(i, res, body, openok) ==
  /\ Alive /\ wpc[i] = "fetch"
  /\ fres' = [fres EXCEPT ![wtid[i]] =
                IF FetchReturn(res) < 0 THEN "transport" ELSE "http"]
  /\ IF FetchReturn(res) < 0
       THEN /\ wpc' = [wpc EXCEPT ![i] = "stopped"]
            /\ why' = [why EXCEPT ![i] = "transport"]
            /\ g_stop' = TRUE
            /\ UNCHANGED << files, crashed, reply >>
       ELSE /\ UNCHANGED << why, g_stop >>
            /\ \/ /\ res = "200" /\ body = <<>>
                  /\ crashed' = TRUE
                  /\ reply' = [reply EXCEPT ![i] =
                                 [status |-> res, body |-> body,
                                  save |-> "none"]]
                  /\ UNCHANGED << wpc, files >>
               \/ /\ wpc' = [wpc EXCEPT ![i] = "top"]
                  /\ files' = IF res = "200"
                                THEN comifuro_ticket_save(files, wtid[i],
                                                          CStr(body), openok)
                                ELSE files
                  /\ reply' = [reply EXCEPT ![i] =
                                 [status |-> res, body |-> body,
                                  save |-> IF res # "200" THEN "none"
                                           ELSE IF openok THEN "ok"
                                           ELSE "error"]]
                  /\ UNCHANGED crashed
  /\ UNCHANGED << mpc, ret, exited, exit_code, handlers, ctxvars, tid_pos,
                  thrvars, dirs, mi, last_tid, wtid, dispensed, nfetch,
                  poststop, histvars, cbvars >>

\* comifuro_fetch_ticket returning -1 for a status that is neither 200 nor 404.
comifuro_fetch_ticket_strict_status(i, res, body, openok) ==
  /\ Alive /\ wpc[i] = "fetch"
  /\ fres' = [fres EXCEPT ![wtid[i]] =
                IF FetchReturn(res) < 0 THEN "transport" ELSE "http"]
  /\ IF FetchReturn(res) < 0 \/ res = "other"
       THEN /\ wpc' = [wpc EXCEPT ![i] = "stopped"]
            /\ why' = [why EXCEPT ![i] = "transport"]
            /\ UNCHANGED << files, crashed, reply >>
       ELSE /\ UNCHANGED why
            /\ \/ /\ res = "200" /\ body = <<>>
                  /\ crashed' = TRUE
                  /\ reply' = [reply EXCEPT ![i] =
                                 [status |-> res, body |-> body,
                                  save |-> "none"]]
                  /\ UNCHANGED << wpc, files >>
               \/ /\ wpc' = [wpc EXCEPT ![i] = "top"]
                  /\ files' = IF res = "200"
                                THEN comifuro_ticket_save(files, wtid[i],
                                                          CStr(body), openok)
                                ELSE files
                  /\ reply' = [reply EXCEPT ![i] =
                                 [status |-> res, body |-> body,
                                  save |-> IF res # "200" THEN "none"
                                           ELSE IF openok THEN "ok"
                                           ELSE "error"]]
                  /\ UNCHANGED crashed
  /\ UNCHANGED << mpc, ret, exited, exit_code, handlers, g_stop, ctxvars,
                  tid_pos, thrvars, dirs, mi, last_tid, wtid, dispensed,
                  nfetch, poststop, histvars, cbvars >>

\* comifuro_fetch_ticket for the worker's tid, and the worker's test of its
\* result: if (ret < 0) break. With a 200 and no body byte received
\* thread->cdata.buf is NULL and strstr(NULL, ...) is undefined: the process
\* is killed, or the body is read as the empty string.
comifuro_fetch_ticket(i, res, body, openok) ==
  /\ Alive /\ wpc[i] = "fetch"
  /\ fres' = [fres EXCEPT ![wtid[i]] =
                IF FetchReturn(res) < 0 THEN "transport" ELSE "http"]
  /\ IF FetchReturn(res) < 0
       THEN /\ wpc' = [wpc EXCEPT ![i] = "stopped"]
            /\ why' = [why EXCEPT ![i] = "transport"]
            /\ UNCHANGED << files, crashed, reply >>
       ELSE /\ UNCHANGED why
            /\ \/ /\ res = "200" /\ body = <<>>
                  /\ crashed' = TRUE
                  /\ reply' = [reply EXCEPT ![i] =
                                 [status |-> res, body |-> body,
                                  save |-> "none"]]
                  /\ UNCHANGED << wpc, files >>
               \/ /\ wpc' = [wpc EXCEPT ![i] = "top"]
                  /\ files' = IF res = "200"
                                THEN comifuro_ticket_save(files, wtid[i],
                                                          CStr(body), openok)
                                ELSE files
                  /\ reply' = [reply EXCEPT ![i] =
                                 [status |-> res, body |-> body,
                                  save |-> IF res # "200" THEN "none"
                                           ELSE IF openok THEN "ok"
                                           ELSE "error"]]
                  /\ UNCHANGED crashed
  /\ UNCHANGED << mpc, ret, exited, exit_code, handlers, g_stop, ctxvars,
                  tid_pos, thrvars, dirs, mi, last_tid, wtid, dispensed,
                  nfetch, poststop, histvars, cbvars >>

\* ----------------------------------------------------------- specification
MainStep ==
  \/ install_signal_handlers
  \/ \E k \in ArgKinds \ {"run"} : parse_argv(k, 1, FALSE, 0, FALSE, 0)
  \/ \E t \in ThreadArgs, hs, he \in BOOLEAN, s \in StartArgs, e \in EndArgs :
       parse_argv("run", t, hs, IF hs THEN s ELSE 0, he, IF he THEN e ELSE 0)
  \/ curl_global_init
  \/ init_thread_array
  \/ init_output_storage
  \/ start_comifuro_ticket_var_dumper
  \/ pthread_create
  \/ run_inline_worker
  \/ save_last_tid
  \/ gwcfd_ctx_destroy
  \/ pthread_join
  \/ destroy_done
  \/ curl_global_cleanup

WorkerStep(i) ==
  \/ worker_test_stop(i)
  \/ worker_get_tid(i)
  \/ \E res \in {r \in FetchResults : FetchReturn(r) < 0} :
       comifuro_fetch_ticket(i, res, <<>>, TRUE)
  \/ \E openok \in BOOLEAN :
       comifuro_fetch_ticket(i, ServerAnswer(wtid[i]).status,
                             ServerAnswer(wtid[i]).body, openok)

Next ==
  \/ MainStep
  \/ interrupt_handler
  \/ \E i \in Slots : WorkerStep(i)

Spec == Init /\ [][Next]_vars

\* ---------------------------------------------------------------- properties
\* The workers: the inline one and the created ones.
Workers == {i \in Slots : wpc[i] # "idle"}

Max(a, b) == IF a > b THEN a ELSE b

\* C1: the values comifuro_get_tid has returned are, in the order of the calls,
\* tid0, tid0 + 1, ... (modulo the width): no value twice, none left out, and
\* the cursor is the next one; while the cursor has not wrapped they are
\* exactly the range [tid0, tid_pos).
C1_ContiguousRange ==
  LET n == Len(dispensed) IN
    /\ tid_pos = (tid0 + n) % TidMod
    /\ \A k \in 1 .. n : dispensed[k] = (tid0 + k - 1) % TidMod
    /\ \A j, k \in 1 .. n : j # k => dispensed[j] # dispensed[k]
    /\ tid0 + n < TidMod =>
         {dispensed[k] : k \in 1 .. n} = tid0 .. (tid_pos - 1)

\* Three workers are fetching ids they took from the cursor.
C1_Witness ==
  /\ Len(dispensed) >= 3
  /\ \A i \in Slots : wpc[i] = "fetch"

\* C2 (as claimed): the checkpoint is saved when every worker has stopped, so
\* no id is dispensed after the save and the saved value is the final cursor:
\* tid0 plus the number of ids dispensed in the whole run.
C2_NothingDispensedAfterSave ==
  saved # <<>> =>
    /\ saved[1].calls = Len(dispensed)
    /\ saved[1].val = tid_pos

\* C3 (as claimed): no worker takes an id from the cursor once g_stop is set.
C3_NoAcquireAfterStop ==
  \A i \in Slots : poststop[i] = 0

\* C3 (amended): once g_stop is set, a worker takes at most one more id from
\* the cursor, so at most nr_thread ids are taken after the flag is set.
C3_AtMostOneAfterStop ==
  \A i \in Slots : poststop[i] <= 1

\* A worker took an id after the flag was set, and is fetching it.
C3_Witness ==
  \E i \in Slots : poststop[i] = 1 /\ wpc[i] = "fetch" /\ g_stop

\* C4 (as claimed): the end bound is exclusive: no fetch is issued for an id
\* at or beyond end_tid.
C4_EndExclusive ==
  \A t \in Tids : nfetch[t] > 0 => t < end_tid

\* C4 (amended): the end bound is inclusive: no fetch is issued for an id
\* beyond end_tid, and a worker that left its loop at the end bound holds an
\* id beyond end_tid that was not fetched.
C4_EndInclusive ==
  /\ \A t \in Tids : nfetch[t] > 0 => t <= end_tid
  /\ \A i \in Slots :
       why[i] = "end_tid" => wtid[i] > end_tid /\ nfetch[wtid[i]] = 0

\* The id equal to the end bound was fetched, and a worker stopped on the next.
C4_Witness ==
  /\ cmd = "run" /\ end_tid < UINT64_MAX
  /\ nfetch[end_tid] = 1
  /\ \E i \in Slots : why[i] = "end_tid" /\ wtid[i] = end_tid + 1

\* The run ended by exhaustion: the process has exited, no signal came, and
\* every worker left its loop at the end bound.
Exhausted ==
  /\ exited /\ ~g_stop
  /\ Workers # {}
  /\ \A i \in Workers : why[i] = "end_tid"

\* C5 (as claimed): after a run that ended by exhaustion the saved checkpoint
\* is the end bound.
C5_SavedIsEnd ==
  Exhausted /\ saved # <<>> => saved[1].val = end_tid

\* C5 (amended): when the inline worker left its loop at the end bound, the
\* saved checkpoint is the cursor at the time of the save, tid0 plus the calls
\* made by then; while the cursor has not wrapped it lies beyond the end
\* bound, between Max(tid0, end_tid + 1) + 1 and Max(tid0, end_tid + 1) +
\* nr_thread.
C5_SavedBeyondEnd ==
  saved # <<>> /\ why[0] = "end_tid" =>
    /\ saved[1].val = (tid0 + saved[1].calls) % TidMod
    /\ tid0 + saved[1].calls < TidMod =>
         /\ saved[1].val >= Max(tid0, end_tid + 1) + 1
         /\ saved[1].val <= Max(tid0, end_tid + 1) + nr_thread

\* A run of three workers from tid0 = end_tid ended by exhaustion, with the
\* checkpoint written.
C5_Witness ==
  /\ Exhausted /\ nr_thread = 3 /\ tid0 = end_tid
  /\ saved # <<>> /\ saved[1].ok

\* The first id of the run as the claim has it, read before the checkpoint is
\* overwritten: -s, else the checkpoint if it parses, else g_start_tid (also
\* when the checkpoint cannot be opened).
C6_FirstIds ==
  IF has_start_tid THEN {start_tid}
  ELSE IF last_tid # NoFile /\ ScanULL(last_tid, TidMod).ok
         THEN {ScanULL(last_tid, TidMod).val, g_start_tid}
         ELSE {g_start_tid}

\* C6 (as claimed): the first id dispensed is the -s value when -s is given,
\* else the checkpoint's value, else the default.
C6_FirstIdDispensed ==
  dispensed # <<>> /\ saved = <<>> => dispensed[1] \in C6_FirstIds

\* The set-up failures the claims name.
SetupFailures ==
  {"parse_argv", "curl_global_init", "init_thread_array",
   "init_output_storage", "pthread_create"}

\* C7 (as claimed): the exit status is 0 when nothing failed, help and version
\* included, and not 0 after a set-up failure.
C7_ExitCode ==
  exited =>
    /\ failure = "none" => exit_code = 0
    /\ failure \in SetupFailures => exit_code # 0

\* C8 (as claimed): after a set-up failure no id has been dispensed and no
\* fetch issued.
C8_NoWorkAfterSetupFailure ==
  failure \in SetupFailures =>
    /\ dispensed = <<>>
    /\ \A t \in Tids : nfetch[t] = 0

\* Worker i's fetch ends in a transport error in this step.
TransportErrorStep(i) ==
  /\ wpc[i] = "fetch"
  /\ fres[wtid[i]] = "inflight"
  /\ fres'[wtid[i]] = "transport"

\* C9: a step in which a worker's fetch ends in a transport error stops that
\* worker, takes no id from the cursor and issues no fetch (no retry, no
\* skip), and leaves the stop flag and every other worker as they were.
C9_TransportErrorStopsOneWorker ==
  [][\A i \in Slots :
       TransportErrorStep(i) =>
         /\ wpc'[i] = "stopped"
         /\ dispensed' = dispensed /\ tid_pos' = tid_pos /\ nfetch' = nfetch
         /\ g_stop' = g_stop /\ crashed' = crashed
         /\ \A j \in Slots \ {i} : wpc'[j] = wpc[j] /\ wtid'[j] = wtid[j]
    ]_vars

\* A worker has stopped on a transport error; another one, which took its id
\* later, is fetching, and a third is about to take one.
C9_Witness ==
  \E i, j, k \in Slots :
    /\ why[i] = "transport" /\ wpc[i] = "stopped"
    /\ wpc[j] = "fetch" /\ wtid[j] > wtid[i]
    /\ wpc[k] = "get" /\ Len(dispensed) < MaxDispense
    /\ Alive /\ ~g_stop

\* Worker i's fetch ends with an HTTP status in this step, and the process
\* lives on.
HttpStep(i) ==
  /\ wpc[i] = "fetch"
  /\ fres[wtid[i]] = "inflight"
  /\ fres'[wtid[i]] = "http"
  /\ ~crashed'

\* C10: a stopped worker stays stopped; a worker leaves RUNNING only in a step
\* that reads g_stop set, takes an id beyond end_tid, or ends a fetch in a
\* transport error; a fetch that ends with an HTTP status (404, another
\* status, a 200 whose file cannot be opened) takes the worker back to the top
\* of its loop.
C10_WorkerStateMachine ==
  [][\A i \in Slots :
       /\ wpc[i] = "stopped" => wpc'[i] = "stopped"
       /\ wpc[i] \in Running /\ wpc'[i] \notin Running =>
            /\ wpc'[i] = "stopped"
            /\ \/ wpc[i] = "top" /\ g_stop
               \/ wpc[i] = "get" /\ wtid'[i] > end_tid
               \/ TransportErrorStep(i)
       /\ HttpStep(i) => wpc'[i] = "top"
    ]_vars

\* One worker got a 404 for id 2, another status for id 4, and could not open
\* the file for the 200 of id 5; it is at the top of its loop.
C10_Witness ==
  /\ nr_thread = 1 /\ wpc[0] = "top"
  /\ ServerAnswer(2).status = "404" /\ fres[2] = "http"
  /\ ServerAnswer(4).status = "other" /\ fres[4] = "http"
  /\ ServerAnswer(5).status = "200" /\ fres[5] = "http"
  /\ \A d \in Days : files[<<d, 5>>] = NoFile

\* ------------------------------------------------- C11 .. C20, under Spec
\* The first id of the range the command line asks for: the value of -s when
\* it is given, else the checkpoint or the compiled-in default.
ConfiguredStart == IF has_start_tid THEN start_tid ELSE tid0

\* C11 (as claimed): with a finite end bound, no signal and no transport
\* error, when the run has stopped all its workers and the process has exited,
\* every id of the configured range (from the configured start up to the end
\* bound) has been fetched exactly once and its fetch has ended.
C11_RangeFetchedOnce ==
  ( /\ exited /\ cmd = "run" /\ failure = "none" /\ Workers # {}
    /\ end_tid < UINT64_MAX
    /\ ~g_stop
    /\ \A i \in Workers : why[i] # "transport" )
  => \A t \in Tids :
       (ConfiguredStart <= t /\ t < end_tid) =>
         nfetch[t] = 1 /\ fres[t] = "http"

\* C12 (as claimed): the checkpoint is never written while a worker is still
\* running, never more than once, and when the process has exited after a run
\* in which workers were started it has been written exactly once.
C12_SavedOnceAtEnd ==
  /\ saved # <<>> => \A i \in Workers : wpc[i] = "stopped"
  /\ Len(saved) <= 1
  /\ (exited /\ Workers # {}) => Len(saved) = 1 /\ saved[1].ok

\* ------------------------------------------- C13: the checkpoint round trip
\* The cursor values the round trip is run for are 0 .. 2^RtBits - 1: an
\* unsigned long long scaled to RtBits bits, wide enough for several decimal
\* digits.
RtBits == 7
RtMod == 2 ^ RtBits

\* A run is about to save its cursor, whatever value it has; the file holds
\* anything an earlier run can have left.
InitRoundTrip ==
  /\ mpc = "save_last_tid"
  /\ tid_pos \in 0 .. (RtMod - 1)
  /\ tid0 = tid_pos
  /\ last_tid \in LastTidFiles
  /\ ret = 0 /\ exited = FALSE /\ exit_code = 0 /\ crashed = FALSE
  /\ handlers = FALSE /\ g_stop = FALSE
  /\ has_start_tid = FALSE /\ start_tid = 0 /\ end_tid = 0 /\ nr_thread = 0
  /\ threads = FALSE /\ curl = {} /\ created = {} /\ joined = {}
  /\ dirs = "null" /\ mi = 0
  /\ files = [f \in Days \X Tids |-> NoFile]
  /\ wpc = [i \in Slots |-> "idle"]
  /\ wtid = [i \in Slots |-> 0]
  /\ cmd = "none" /\ failure = "none"
  /\ dispensed = <<>>
  /\ nfetch = [t \in Tids |-> 0]
  /\ fres = [t \in Tids |-> "none"]
  /\ why = [i \in Slots |-> "none"]
  /\ poststop = [i \in Slots |-> 0]
  /\ saved = <<>>
  /\ reply = [i \in Slots |-> NoReply]
  /\ cdata = ZeroCdata /\ cb_calls = 0 /\ cb_ret = 0

\* save_last_tid with fopen succeeding; the process ends and the next one
\* starts with ctx->tid_pos = g_start_tid.
RoundTripSave ==
  /\ mpc = "save_last_tid"
  /\ last_tid' = LastTidText(tid_pos)
  /\ tid_pos' = g_start_tid
  /\ mpc' = "try_load_last_tid"
  /\ UNCHANGED << ret, exited, exit_code, crashed, handlers, g_stop, ctxvars,
                  thrvars, dirs, mi, workervars, histvars, cbvars >>

\* try_load_last_tid in the next run, started without -s, fopen succeeding.
RoundTripLoad ==
  /\ mpc = "try_load_last_tid"
  /\ tid_pos' = try_load_last_tid(tid_pos, last_tid, TRUE, RtMod)
  /\ mpc' = "loaded"
  /\ UNCHANGED << ret, exited, exit_code, crashed, handlers, g_stop, ctxvars,
                  thrvars, dirs, mi, last_tid, workervars, histvars, cbvars >>

NextRoundTrip == RoundTripSave \/ RoundTripLoad

SpecRoundTrip == InitRoundTrip /\ [][NextRoundTrip]_vars

\* C13: after save_last_tid has written the cursor X (tid0) and the next run
\* has loaded the file, the cursor is X again, for every X from 0 to the
\* largest value, and the first id comifuro_get_tid hands out is X.
C13_RoundTrip ==
  mpc = "loaded" =>
    /\ tid_pos = tid0
    /\ comifuro_get_tid(tid_pos).old = tid0

\* The largest value, written with several digits, has made the round trip.
C13_Witness ==
  /\ mpc = "loaded"
  /\ tid0 = RtMod - 1
  /\ Len(last_tid) > 2
  /\ tid_pos = tid0

\* ------------------------------------ C14, C15: one fetch, any reply to it
\* The bodies a reply can carry: up to MaxPieces pieces, each a marker, the
\* start of a marker, another byte or a NUL byte.
MaxPieces == 3
Pieces ==
  {Day1Marker, Day2Marker, <<"D", "a", "y", " ">>, <<"x">>, <<"NUL">>}

RECURSIVE BodiesOf(_)
BodiesOf(n) ==
  IF n = 0 THEN {<<>>}
  ELSE BodiesOf(n - 1) \cup {b \o p : b \in BodiesOf(n - 1), p \in Pieces}

Bodies == BodiesOf(MaxPieces)

\* A run with one worker, the inline one, whose request for some id is in
\* flight: comifuro_fetch_ticket is inside curl_easy_perform.
InitFetch ==
  /\ mpc = "worker0"
  /\ handlers = TRUE
  /\ nr_thread = 1 /\ end_tid = UINT64_MAX
  /\ has_start_tid = FALSE /\ start_tid = 0
  /\ threads = TRUE /\ curl = {0} /\ created = {} /\ joined = {}
  /\ dirs = "alloc" /\ mi = 1
  /\ cmd = "run" /\ failure = "none"
  /\ last_tid = NoFile
  /\ \E t \in Tids :
       /\ tid0 = t
       /\ wtid = [i \in Slots |-> IF i = 0 THEN t ELSE 0]
       /\ dispensed = <<t>>
       /\ tid_pos = comifuro_get_tid(t).new
       /\ nfetch = [u \in Tids |-> IF u = t THEN 1 ELSE 0]
       /\ fres = [u \in Tids |-> IF u = t THEN "inflight" ELSE "none"]
  /\ wpc = [i \in Slots |-> IF i = 0 THEN "fetch" ELSE "idle"]
  /\ ret = 0 /\ exited = FALSE /\ exit_code = 0 /\ crashed = FALSE
  /\ g_stop = FALSE
  /\ files = [f \in Days \X Tids |-> NoFile]
  /\ why = [i \in Slots |-> "none"]
  /\ poststop = [i \in Slots |-> 0]
  /\ saved = <<>>
  /\ reply = [i \in Slots |-> NoReply]
  /\ cdata = ZeroCdata /\ cb_calls = 0 /\ cb_ret = 0

\* The request ends: in an error, or with any status and any body; fopen in
\* comifuro_ticket_save succeeds or fails.
NextFetch ==
  \E res \in FetchResults, body \in Bodies, openok \in BOOLEAN :
    comifuro_fetch_ticket(0, res, body, openok)

SpecFetch == InitFetch /\ [][NextFetch]_vars

\* marker occurs somewhere in data.
Contains(data, marker) ==
  \E a \in 1 .. Len(data) : \E b \in a .. Len(data) :
    SubSeq(data, a, b) = marker

\* The directories tid has a file in.
DirsOf(tid) == {d \in Days : files[<<d, tid>>] # NoFile}

C15_FileEqualsBody ==
  \A i \in Slots :
    /\ (reply[i].status = "200" /\ reply[i].save # "error") =>
         \E d \in Days : files[<<d, wtid[i]>>] = reply[i].body
    /\ reply[i].status \in {"404", "other"} => DirsOf(wtid[i]) = {}

\* --------------------------------------- C16: the cursor at the largest value
\* A checkpoint that holds the largest 64-bit value.
WrapFiles == { LastTidText(UINT64_MAX) }

InitWrap == InitFiles(WrapFiles)

SpecWrap == InitWrap /\ [][Next]_vars

\* C16 (as claimed): the cursor never falls below the value the workers were
\* started with, and no id below that value is ever fetched.
C16_CursorMonotonic ==
  /\ tid_pos >= tid0
  /\ \A t \in Tids : nfetch[t] > 0 => t >= tid0

\* ----------------------------------------------------- C17 .. C20, under Spec
\* C17: the flag is acted on at the top of the loop only. A worker that takes
\* an id within the end bound issues the fetch of that id in the same step,
\* the flag set or not; a worker whose fetch is in flight stays there until
\* the fetch has ended (with a status or in an error); and a worker stops
\* because of the flag only from the top of its loop.
C17_FetchBeforeStop ==
  [][\A i \in Slots :
       /\ (wpc[i] = "get" /\ wpc'[i] # "get" /\ wtid'[i] <= end_tid) =>
            /\ wpc'[i] = "fetch"
            /\ nfetch'[wtid'[i]] = nfetch[wtid'[i]] + 1
            /\ fres'[wtid'[i]] = "inflight"
       /\ (wpc[i] = "fetch" /\ wpc'[i] # "fetch") =>
            /\ fres[wtid[i]] = "inflight"
            /\ fres'[wtid[i]] \in {"http", "transport"}
       /\ (wpc[i] # "stopped" /\ wpc'[i] = "stopped" /\ why'[i] = "g_stop") =>
            wpc[i] = "top"
    ]_vars

\* A worker took an id after the flag was set, its fetch ended with an HTTP
\* status, and only then did it stop on the flag.
C17_Witness ==
  \E i \in Workers :
    /\ g_stop /\ poststop[i] = 1
    /\ fres[wtid[i]] = "http"
    /\ wpc[i] = "stopped" /\ why[i] = "g_stop"

\* The ids from the cursor the workers were started with up to the saved
\* checkpoint, the end bound respected.
ResumeGap ==
  {t \in Tids : tid0 <= t /\ t < saved[1].val /\ t <= end_tid}

\* C18: when the process has exited after a run that saved the checkpoint,
\* the fetch of every id from the initial cursor up to the checkpoint (and not
\* beyond the end bound) has ended, with an HTTP status or in a transport
\* error; the ids whose fetch ended in a transport error are each the last id
\* of a different worker that stopped on it: at most one per worker.
C18_ResumeGapBounded ==
  (exited /\ saved # <<>> /\ saved[1].ok) =>
    /\ \A t \in ResumeGap :
         /\ nfetch[t] = 1
         /\ fres[t] \in {"http", "transport"}
         /\ fres[t] = "transport" =>
              \E i \in Workers : why[i] = "transport" /\ wtid[i] = t
    /\ Cardinality({t \in ResumeGap : fres[t] = "transport"}) <= nr_thread

\* A run with two workers or more exited with a saved checkpoint; one id
\* below the checkpoint ended in a transport error, another with a status.
C18_Witness ==
  /\ exited /\ saved # <<>> /\ saved[1].ok
  /\ nr_thread >= 2
  /\ \E t, u \in ResumeGap : fres[t] = "transport" /\ fres[u] = "http"

\* ------------------------------------------ C19: the write callback's buffer
\* size_t, scaled to SizeBits bits.
SizeBits == 17
SizeMod == 2 ^ SizeBits
\* The room comifuro_write_cb asks for beyond the bytes it has.
WRITE_CB_SLACK == 8192
\* The sizes size * nmemb of the chunks libcurl delivers (at most
\* CURL_MAX_WRITE_SIZE bytes each), and the number of chunks of one body.
ChunkSizes == {1, 8191, 8192, 16384}
MaxChunks == 4

\* The transfer is over: a call returned fewer bytes than it was given.
Aborted == cb_calls > 0 /\ cb_ret = 0

\* comifuro_write_cb(ptr, size, nmemb, thread) with size * nmemb = n, called by
\* libcurl while worker 0's request is in flight. When realloc fails it
\* returns 0. The terminating NUL is written at buf[new_len]: when new_len is
\* not below the allocated size that byte is outside the buffer, which is
\* undefined: the process is killed, or it goes on.
comifuro_write_cb(n) ==
  /\ Alive /\ wpc[0] = "fetch"
  /\ cb_calls < MaxChunks /\ ~Aborted
  /\ cb_calls' = cb_calls + 1
  /\ LET new_len == (cdata.len + n) % SizeMod
         grow == new_len > cdata.allocated
         sum == (new_len + WRITE_CB_SLACK) % SizeMod
         new_alloc == IF sum < new_len THEN new_len ELSE sum
         allocated == IF grow THEN new_alloc ELSE cdata.allocated
     IN \/ /\ grow
           /\ cb_ret' = 0
           /\ UNCHANGED << cdata, crashed >>
        \/ /\ cdata' = [buf |-> IF grow THEN TRUE ELSE cdata.buf,
                        len |-> new_len,
                        allocated |-> allocated]
           /\ cb_ret' = n
           /\ \/ UNCHANGED crashed
              \/ new_len >= allocated /\ crashed' = TRUE
  /\ UNCHANGED << mpc, ret, exited, exit_code, handlers, g_stop, ctxvars,
                  tid_pos, thrvars, dirs, mi, last_tid, workervars, histvars >>

NextWriteCb == \E n \in ChunkSizes : comifuro_write_cb(n)

SpecWriteCb == InitFetch /\ [][NextWriteCb]_vars

\* C19 (as claimed): after each call of comifuro_write_cb that succeeded the
\* length is below the allocated size, so that the terminating NUL at
\* buf[len] is inside the buffer.
C19_LenBelowAllocated ==
  (cb_calls > 0 /\ cb_ret > 0) => cdata.len < cdata.allocated

\* C20 (as claimed): pthread_join is called only on slots whose thread was
\* created.
C20_JoinOnlyCreated == joined \subseteq created

====
